---- MODULE Spec2Model ----
(***************************************************************************)
(* A model of src/app.py: the mail-merge of one Excel workbook (a profile  *)
(* sheet and a goods sheet) into a set of Word templates, one output       *)
(* folder per customer.                                                    *)
(*                                                                         *)
(* Encoding of Python values.                                              *)
(*   - A Python str is a sequence of one-character strings, so that the    *)
(*     character-wise functions (strip_accents, normalize_key,             *)
(*     safe_filename, str.strip) are computed character by character.      *)
(*   - A header or a return value that is not a str is a one-element       *)
(*     sequence holding a token that is no character: None, IntHeader.     *)
(*   - A cell of a DataFrame is a record [k, n, s]: k = "nan" (missing),   *)
(*     k = "num" (the number n), k = "str" (the text s).  Numbers are      *)
(*     non-negative integers.                                              *)
(*   - A DataFrame is [columns, rows]: the headers in order and the rows   *)
(*     in order, each row a sequence of cells aligned with the headers.    *)
(***************************************************************************)
EXTENDS Integers, Sequences, FiniteSets, TLC

VARIABLES
    pc,            \* position of main(): a stage of StageOrder, "templates" (inside the template
                   \* loop), "done", "aborted" (a setup check raised), "crashed" (the loop raised)
    raised,        \* the exception that ended the run ("" while none has)
    outputDirMade, \* output_dir.mkdir has run (line 257)
    templates,     \* the sorted template stems (line 260)
    df_hoso,       \* the profile DataFrame (line 267)
    df_hanghoa,    \* the goods DataFrame (line 268)
    custIdx,       \* index into df_hoso.rows of the customer being rendered (line 277)
    tplIdx,        \* index into templates of the next template of that customer (line 233)
    customer_out_dir, \* [name, dir] of the current customer (lines 224-225)
    items_df,      \* the current customer goods rows (lines 229-231)
    folders,       \* every [name, dir] that mkdir has created (line 226)
    saved,         \* log of doc.save: [path, cust, tpl, context] in order (line 243)
    attempted,     \* the <<customer, template>> pairs whose loop body was entered (line 233)
    builds,        \* number of build_goods_table_subdoc invocations (line 207)
    arg,           \* argument of the pure function under check (function specifications)
    ret            \* its result

vars == <<pc, raised, outputDirMade, templates, df_hoso, df_hanghoa, custIdx, tplIdx,
          customer_out_dir, items_df, folders, saved, attempted, builds, arg, ret>>

mainVars == <<pc, raised, outputDirMade, templates, df_hoso, df_hanghoa, custIdx, tplIdx,
              customer_out_dir, items_df, folders, saved, attempted, builds>>

(***************************************************************************)
(* Bounds of the model.                                                    *)
(***************************************************************************)
MaxCustomers == 2
MaxTemplates == 2
MaxGoodsRows == 2
MaxSheets == 3
MaxCols == 3
MaxCands == 2
MaxTableRows == 2

(***************************************************************************)
(* String literals of the source, character by character.                  *)
(***************************************************************************)
S_MaKH == <<"M", "a4", " ", "K", "H">>
S_HoTen == <<"H", "o5", " ", "t", "e6", "n">>
S_TenHang == <<"T", "e6", "n", " ", "h", "a2", "n", "g">>
S_Ten_hang == <<"T", "e", "n", " ", "h", "a", "n", "g">>
S_Ten_hang2 == <<"T", "e", "n", " ", "h", "a2", "n", "g">>
S_TenHang_cap == <<"T", "e6", "n", " ", "H", "a2", "n", "g">>
S_TenHH == <<"T", "e6", "n", "H", "H">>
S_TenHH_plain == <<"T", "e", "n", "H", "H">>
S_SoLuong == <<"S", "o61", " ", "l", "u7", "o75", "n", "g">>
S_So_luong == <<"S", "o", " ", "l", "u", "o", "n", "g">>
S_SoLuong_cap == <<"S", "o61", " ", "L", "u7", "o75", "n", "g">>
S_SL == <<"S", "L">>
S_SoLuong_plain == <<"S", "o", "L", "u", "o", "n", "g">>
S_DonGia == <<"D9", "o7", "n", " ", "g", "i", "a1">>
S_Don_gia == <<"D", "o", "n", " ", "g", "i", "a">>
S_DonGia_cap == <<"D9", "o7", "n", " ", "G", "i", "a1">>
S_DonGia_plain == <<"D", "o", "n", "G", "i", "a">>
S_ThanhTien == <<"T", "h", "a2", "n", "h", " ", "t", "i", "e62", "n">>
S_Thanh_tien == <<"T", "h", "a", "n", "h", " ", "t", "i", "e", "n">>
S_ThanhTien_cap == <<"T", "h", "a2", "n", "h", " ", "T", "i", "e62", "n">>
S_ThanhTien_plain == <<"T", "h", "a", "n", "h", "T", "i", "e", "n">>
S_SoluongNum == <<"_", "S", "o", "l", "u", "o", "n", "g", "N", "u", "m">>
S_DongiaNum == <<"_", "D", "o", "n", "g", "i", "a", "N", "u", "m">>
S_ThanhTienCol == <<"_", "T", "h", "a", "n", "h", "T", "i", "e", "n">>
S_NoGoods == <<"K", "h", "o6", "n", "g", " ", "c", "o1", " ", "h", "a2", "n", "g", " ", "h", "o", "a1", ".">>
K_hoso == <<"h", "o", "s", "o">>
K_hanghoa == <<"h", "a", "n", "g", "h", "o", "a">>
K_hanghoa_acute == <<"h", "a", "n", "g", "h", "o", "a1">>
K_hanghoa_grave == <<"h", "a", "n", "g", "h", "o", "a2">>
K_hang == <<"h", "a", "n", "g">>
K_hoa == <<"h", "o", "a">>
S_docx == <<".", "d", "o", "c", "x">>
S_nan == <<"n", "a", "n">>
S_keep == <<"-", "_", ".", "(", ")", " ", "[", "]">>

\* Values that are not a str.
None == <<"#None">>
IntHeader == <<"#int">>
NonStr == {None, IntHeader}
isinstance_str(x) == x \notin NonStr

\* Cells.
NaN == [k |-> "nan", n |-> 0, s |-> <<>>]
Num(n) == [k |-> "num", n |-> n, s |-> <<>>]
Str(s) == [k |-> "str", n |-> 0, s |-> s]
isna(v) == v.k = "nan"

(***************************************************************************)
(* Generic helpers on sequences.                                           *)
(***************************************************************************)
Range(s) == {s[i] : i \in 1..Len(s)}

SeqsUpTo(S, n) == UNION {[1..m -> S] : m \in 0..n}

\* Python: sub in s, on strings.
Contains(s, sub) ==
    \E i \in 0..(Len(s) - Len(sub)) : SubSeq(s, i + 1, i + Len(sub)) = sub

(***************************************************************************)
(* Characters.  An accented letter is one character, written in the VNI    *)
(* convention as its base letter followed by the digits of its marks:      *)
(* 1 acute, 2 grave, 4 tilde, 5 dot below, 6 circumflex, 7 horn, 9 stroke  *)
(* (a2 is a with grave, o62 is o with circumflex and grave, D9 is the      *)
(* capital D with stroke).  The tables cover every character the model     *)
(* uses.                                                                   *)
(***************************************************************************)
DigitChars == <<"0", "1", "2", "3", "4", "5", "6", "7", "8", "9">>

\* unicodedata.normalize("NFD", c) with the combining marks dropped.  "D9" and
\* "d9" have no decomposition and stay.
Decomposed(c) ==
    CASE c = "a2" -> "a"
      [] c = "a1" -> "a"
      [] c = "a4" -> "a"
      [] c = "e6" -> "e"
      [] c = "o1" -> "o"
      [] c = "o6" -> "o"
      [] c = "o7" -> "o"
      [] c = "u7" -> "u"
      [] c = "e62" -> "e"
      [] c = "o5" -> "o"
      [] c = "o61" -> "o"
      [] c = "o62" -> "o"
      [] c = "o75" -> "o"
      [] OTHER -> c

\* str.lower on one character.
Lower(c) ==
    CASE c = "A" -> "a"
      [] c = "B" -> "b"
      [] c = "D" -> "d"
      [] c = "G" -> "g"
      [] c = "H" -> "h"
      [] c = "K" -> "k"
      [] c = "L" -> "l"
      [] c = "M" -> "m"
      [] c = "N" -> "n"
      [] c = "O" -> "o"
      [] c = "S" -> "s"
      [] c = "T" -> "t"
      [] c = "D9" -> "d9"
      [] OTHER -> c

\* str.isalnum on one character.
isalnum(c) ==
    c \in {"0", "1", "2", "3", "4", "5", "6", "7", "8", "9",
           "A", "B", "D", "G", "H", "K", "L", "M", "N", "O", "S", "T",
           "a", "b", "c", "d", "e", "g", "h", "i", "k", "l", "m", "n", "o", "s", "t", "u", "x",
           "a2", "a1", "a4", "e6", "o1", "o6", "D9", "d9", "o7", "u7", "e62", "o5", "o61", "o62", "o75"}

(***************************************************************************)
(* Text utilities (lines 22-38).                                           *)
(***************************************************************************)
strip_accents(text) ==
    IF ~isinstance_str(text) THEN text
    ELSE [i \in 1..Len(text) |-> Decomposed(text[i])]

normalize_key(text) ==
    IF ~isinstance_str(text) THEN text
    ELSE LET low == [i \in 1..Len(text) |-> Lower(strip_accents(text)[i])]
         IN  SelectSeq(low, LAMBDA c : c # " ")

safe_filename(text) ==
    [i \in 1..Len(text) |-> IF isalnum(text[i]) \/ text[i] \in Range(S_keep)
                            THEN text[i] ELSE "_"]

\* str.strip("_")
RECURSIVE lstrip_us(_)
lstrip_us(s) == IF s # <<>> /\ Head(s) = "_" THEN lstrip_us(Tail(s)) ELSE s

RECURSIVE rstrip_us(_)
rstrip_us(s) ==
    IF s # <<>> /\ s[Len(s)] = "_" THEN rstrip_us(SubSeq(s, 1, Len(s) - 1)) ELSE s

strip_us(s) == rstrip_us(lstrip_us(s))

\* Python: str(value) of a cell: str(float("nan")) is "nan".
RECURSIVE Digits(_)
Digits(n) == IF n < 10 THEN <<DigitChars[n + 1]>> ELSE Digits(n \div 10) \o <<DigitChars[(n % 10) + 1]>>

str(v) == CASE v.k = "nan" -> S_nan
            [] v.k = "str" -> v.s
            [] v.k = "num" -> Digits(v.n)

(***************************************************************************)
(* Formatter (lines 56-71).                                                *)
(***************************************************************************)
IsDigits(s) == s # <<>> /\ \A i \in 1..Len(s) : \E d \in 1..10 : DigitChars[d] = s[i]

DigitValue(c) == (CHOOSE d \in 1..10 : DigitChars[d] = c) - 1

RECURSIVE DigitsValue(_)
DigitsValue(s) ==
    IF s = <<>> THEN 0 ELSE 10 * DigitsValue(SubSeq(s, 1, Len(s) - 1)) + DigitValue(s[Len(s)])

\* float(value) succeeds: a number, or a text made of digits.  The cell texts
\* of the model are made of letters or of digits only (no sign, exponent,
\* blank, "inf" or "nan" spelling).
FloatOk(v) == v.k = "num" \/ (v.k = "str" /\ IsDigits(v.s))
Float(v) == IF v.k = "num" THEN v.n ELSE DigitsValue(v.s)

\* f"{n:,}".replace(",", "."): groups of three digits separated by ".".
Pad3(n) == <<DigitChars[(n \div 100) + 1], DigitChars[((n \div 10) % 10) + 1], DigitChars[(n % 10) + 1]>>

RECURSIVE Grouped(_)
Grouped(n) == IF n < 1000 THEN Digits(n) ELSE Grouped(n \div 1000) \o <<".">> \o Pad3(n % 1000)

format_int(value) ==
    IF isna(value) \/ value = Str(<<>>) THEN <<>>
    ELSE IF FloatOk(value) THEN Grouped(Float(value))
    ELSE str(value)

format_currency(value) ==
    IF isna(value) \/ value = Str(<<>>) THEN <<>>
    ELSE IF FloatOk(value) THEN Grouped(Float(value))
    ELSE str(value)

(***************************************************************************)
(* Sheet resolver (lines 77-95).  The argument is xls.sheet_names.         *)
(***************************************************************************)
\* Python truthiness of a str-or-None value (line 93, line 150).
truthy(x) == x # None /\ x # <<>>

\* An iteration that assigns on every match, so that the last match wins.
ScanSheet_last_wins(wanted, s) ==
    LET key == normalize_key(s)
        w1 == IF Contains(key, K_hoso) THEN [wanted EXCEPT !.hoso = s] ELSE wanted
        w2 == IF Contains(key, K_hanghoa) \/ (Contains(key, K_hang) /\ Contains(key, K_hoa))
              THEN [w1 EXCEPT !.hanghoa = s] ELSE w1
    IN  w2

\* One iteration of the loop of line 84, with its three if statements.
ScanSheet(wanted, s) ==
    LET key == normalize_key(s)
        w1 == IF Contains(key, K_hoso) /\ wanted.hoso = None
              THEN [wanted EXCEPT !.hoso = s] ELSE wanted
        w2 == IF (Contains(key, K_hanghoa) \/ Contains(key, K_hanghoa)
                  \/ Contains(key, K_hanghoa_acute) \/ Contains(key, K_hanghoa_grave))
                 /\ w1.hanghoa = None
              THEN [w1 EXCEPT !.hanghoa = s] ELSE w1
        w3 == IF Contains(key, K_hang) /\ Contains(key, K_hoa) /\ w2.hanghoa = None
              THEN [w2 EXCEPT !.hanghoa = s] ELSE w2
    IN  w3

RECURSIVE ScanSheets(_, _)
ScanSheets(wanted, names) ==
    IF names = <<>> THEN wanted ELSE ScanSheets(ScanSheet(wanted, Head(names)), Tail(names))

\* The dict returned, and whether ValueError is raised instead (line 94).
find_sheet_names(sheet_names) ==
    LET wanted == ScanSheets([hoso |-> None, hanghoa |-> None], sheet_names)
    IN  [hoso |-> wanted.hoso, hanghoa |-> wanted.hanghoa,
         raised |-> ~truthy(wanted.hoso) \/ ~truthy(wanted.hanghoa)]

(***************************************************************************)
(* DataFrames.                                                             *)
(***************************************************************************)
EmptyDataFrame == [columns |-> <<>>, rows |-> <<>>]

df_empty(df) == Len(df.rows) = 0 \/ Len(df.columns) = 0

has_column(df, name) == \E i \in 1..Len(df.columns) : df.columns[i] = name

column_pos(df, name) == CHOOSE i \in 1..Len(df.columns) : df.columns[i] = name

\* row[col] if col in row else default
row_get(df, row, name, default) ==
    IF has_column(df, name) THEN row[column_pos(df, name)] ELSE default

\* df[name] = values: replaces the column when it exists, else appends it.
set_column(df, name, values) ==
    IF has_column(df, name)
    THEN [df EXCEPT !.rows = [r \in 1..Len(df.rows) |->
                                [df.rows[r] EXCEPT ![column_pos(df, name)] = values[r]]]]
    ELSE [columns |-> Append(df.columns, name),
          rows |-> [r \in 1..Len(df.rows) |-> Append(df.rows[r], values[r])]]

\* pd.to_numeric(errors="coerce").fillna(0) on one cell.
to_numeric_fillna0(v) == IF FloatOk(v) THEN Float(v) ELSE 0

(***************************************************************************)
(* Column resolver (lines 135-141).                                        *)
(***************************************************************************)
\* The dict comprehension of line 136: a later column with the same key
\* replaces an earlier one; non-str headers are left out.
RECURSIVE available_dict(_)
available_dict(columns) ==
    IF columns = <<>> THEN [k \in {} |-> None]
    ELSE LET d == available_dict(SubSeq(columns, 1, Len(columns) - 1))
             c == columns[Len(columns)]
         IN  IF isinstance_str(c)
             THEN [k \in DOMAIN d \cup {normalize_key(c)} |->
                      IF k = normalize_key(c) THEN c ELSE d[k]]
             ELSE d

RECURSIVE pick_from(_, _)
pick_from(available, candidates) ==
    IF candidates = <<>> THEN None
    ELSE IF normalize_key(Head(candidates)) \in DOMAIN available
         THEN available[normalize_key(Head(candidates))]
         ELSE pick_from(available, Tail(candidates))

\* A resolver that walks the available columns first and returns the first
\* column matching any candidate.
pick_col_first_available(columns, candidates) ==
    LET hits == {i \in 1..Len(columns) :
                    /\ isinstance_str(columns[i])
                    /\ \E j \in 1..Len(candidates) :
                          normalize_key(candidates[j]) = normalize_key(columns[i])}
    IN  IF hits = {} THEN None
        ELSE columns[CHOOSE i \in hits : \A j \in hits : i <= j]

pick_col(columns, candidates) == pick_from(available_dict(columns), candidates)

\* The candidate lists of lines 143-146.
TenCandidates == <<S_TenHang, S_Ten_hang, S_Ten_hang2, S_TenHang_cap, S_TenHH, S_TenHH_plain>>
SoLuongCandidates == <<S_SoLuong, S_So_luong, S_SoLuong_cap, S_SL, S_SoLuong_plain>>
DonGiaCandidates == <<S_DonGia, S_Don_gia, S_DonGia_cap, S_DonGia_plain>>
ThanhTienCandidates == <<S_ThanhTien, S_Thanh_tien, S_ThanhTien_cap, S_ThanhTien_plain>>

(***************************************************************************)
(* Item table builder (lines 113-179).  The Subdoc is [paragraphs, table]: *)
(* the paragraphs added and the rows of the table added, each row the      *)
(* texts of its cells.                                                     *)
(***************************************************************************)
TableHeaders == <<S_TenHang, S_SoLuong, S_DonGia, S_ThanhTien>>

\* lines 143-146
resolve_cols(df) ==
    [ten |-> pick_col(df.columns, TenCandidates),
     soluong |-> pick_col(df.columns, SoLuongCandidates),
     dongia |-> pick_col(df.columns, DonGiaCandidates),
     thanhtien |-> pick_col(df.columns, ThanhTienCandidates)]

\* A derivation that is attempted as soon as either operand column resolved.
derives_total_either(cols_map) ==
    cols_map.thanhtien = None /\ (truthy(cols_map.soluong) \/ truthy(cols_map.dongia))

\* line 150
derives_total(cols_map) ==
    cols_map.thanhtien = None /\ truthy(cols_map.soluong) /\ truthy(cols_map.dongia)

\* lines 149-157: the working copy and the final cols_map
with_derived_total(df, cols_map) ==
    LET n == Len(df.rows)
        sl == [r \in 1..n |-> Num(to_numeric_fillna0(row_get(df, df.rows[r], cols_map.soluong, NaN)))]
        w1 == set_column(df, S_SoluongNum, sl)
        dg == [r \in 1..n |-> Num(to_numeric_fillna0(row_get(w1, w1.rows[r], cols_map.dongia, NaN)))]
        w2 == set_column(w1, S_DongiaNum, dg)
        tt == [r \in 1..n |-> Num(row_get(w2, w2.rows[r], S_SoluongNum, NaN).n
                                  * row_get(w2, w2.rows[r], S_DongiaNum, NaN).n)]
    IN  [working |-> set_column(w2, S_ThanhTienCol, tt),
         cols_map |-> [cols_map EXCEPT !.thanhtien = S_ThanhTienCol]]

\* lines 166-177: the texts of one data row
table_row(working, cols_map, r) ==
    LET ten_val == row_get(working, r, cols_map.ten, Str(<<>>))
        sl_val == row_get(working, r, cols_map.soluong, Str(<<>>))
        dg_val == row_get(working, r, cols_map.dongia, Str(<<>>))
        tt_val == row_get(working, r, cols_map.thanhtien, Str(<<>>))
    IN  <<IF isna(ten_val) THEN <<>> ELSE str(ten_val),
          format_int(sl_val), format_currency(dg_val), format_currency(tt_val)>>

build_goods_table_subdoc(df) ==
    IF df_empty(df)
    THEN [paragraphs |-> <<S_NoGoods>>, table |-> <<>>]
    ELSE LET cols_map0 == resolve_cols(df)
             d == IF derives_total(cols_map0)
                  THEN with_derived_total(df, cols_map0)
                  ELSE [working |-> df, cols_map |-> cols_map0]
         IN  [paragraphs |-> <<>>,
              table |-> <<TableHeaders>> \o
                        [r \in 1..Len(d.working.rows) |->
                            table_row(d.working, d.cols_map, d.working.rows[r])]]

(***************************************************************************)
(* Values the specifications draw their inputs from.                       *)
(***************************************************************************)
NotCalled == [called |-> FALSE, fn |-> "", value |-> <<>>]

\* Sheet names of a workbook.
N_HoSo == <<"H", "o62", " ", "s", "o7">>
N_HOSO == <<"H", "O", "S", "O">>
N_HangHoa == <<"H", "a2", "n", "g", " ", "h", "o", "a1">>
N_hang_hoa == <<"h", "a", "n", "g", " ", "h", "o", "a">>
N_HoaHang == <<"H", "o", "a", " ", "h", "a", "n", "g">>
N_Sheet1 == <<"S", "h", "e", "e", "t", "1">>
N_Hang == <<"H", "a", "n", "g">>
N_HoSoHangHoa == <<"H", "o62", " ", "s", "o7", " ", "h", "a2", "n", "g", " ", "h", "o", "a1">>
SheetNameValues ==
    {N_HoSo, N_HOSO, N_HangHoa, N_hang_hoa, N_HoaHang, N_Sheet1, N_Hang, N_HoSoHangHoa}

V_A == <<"A">>
V_B == <<"B">>
V_abc == <<"a", "b", "c">>

(***************************************************************************)
(* Per-customer renderer (lines 185-244).                                  *)
(***************************************************************************)
\* The output root, as a path of segments.
S_out == <<"o", "u", "t">>
OutputRoot == <<S_out>>

\* output_root / name, as the directory the file system resolves it to:
\* pathlib drops an empty or "." segment, and ".." names the parent.
path_join(dir, name) ==
    IF name = <<>> \/ name = <<".">> THEN dir
    ELSE IF name = <<".", ".">> THEN SubSeq(dir, 1, Len(dir) - 1)
    ELSE Append(dir, name)

\* customer_row.get(col, "")
customer_get(row, col) == row_get(df_hoso, row, col, Str(<<>>))

\* line 224
folder_name_of(customer_id, customer_name) ==
    strip_us(safe_filename(str(customer_id)) \o <<"_">> \o safe_filename(str(customer_name)))

\* line 241
out_name_of(stem, customer_id) ==
    stem \o <<"_", "_">> \o safe_filename(str(customer_id)) \o S_docx

\* A filter that compares the cells themselves: a missing id equals nothing.
filter_items_raw(items_all, customer_id) ==
    IF has_column(items_all, S_MaKH)
    THEN [columns |-> items_all.columns,
          rows |-> SelectSeq(items_all.rows,
                             LAMBDA r : ~isna(r[column_pos(items_all, S_MaKH)])
                                        /\ r[column_pos(items_all, S_MaKH)] = customer_id)]
    ELSE EmptyDataFrame

\* lines 229-231
filter_items(items_all, customer_id) ==
    IF has_column(items_all, S_MaKH)
    THEN [columns |-> items_all.columns,
          rows |-> SelectSeq(items_all.rows,
                             LAMBDA r : str(r[column_pos(items_all, S_MaKH)]) = str(customer_id))]
    ELSE EmptyDataFrame

\* lines 191-208.  The birth date, address and phone entries read columns the
\* model's profile sheet does not have and are left out.
build_context_for_customer(customer_row, items) ==
    LET val(col) == IF ~has_column(df_hoso, col) \/ isna(customer_get(customer_row, col))
                    THEN Str(<<>>) ELSE customer_get(customer_row, col)
    IN  [TenKH |-> val(S_HoTen),
         MaKH |-> val(S_MaKH),
         BangHangHoa |-> build_goods_table_subdoc(items)]

(***************************************************************************)
(* Batch driver (lines 247-285).                                           *)
(***************************************************************************)
\* The statements of main() in source order; a reordering that validates the
\* required columns only after the customer loop comes first.
StageOrder_validate_last ==
    <<"check_xlsx", "check_template_dir", "mkdir_output", "glob_templates",
      "read_excel", "customers", "check_required_cols">>

StageOrder ==
    <<"check_xlsx", "check_template_dir", "mkdir_output", "glob_templates",
      "read_excel", "check_required_cols", "customers">>

StageAfter(s) ==
    LET i == CHOOSE k \in 1..Len(StageOrder) : StageOrder[k] = s
    IN  IF i = Len(StageOrder) THEN "done" ELSE StageOrder[i + 1]

Raise(what) ==
    /\ pc' = "aborted"
    /\ raised' = what

\* Template stems in sorted order (line 260).
Stem(i) == <<"T", DigitChars[i + 1]>>

\* Workbooks.  Customer ids are str or missing (dtype str, line 100).
V_1 == <<"1">>
V_slash == <<"/">>
V_colon == <<":">>
V_dotdot == <<".", ".">>
S_MaKH_plain == <<"m", "a", " ", "k", "h">>
S_MaKH_padded == <<"M", "a4", " ", "K", "H", " ">>
S_HoTen_plain == <<"H", "o", " ", "t", "e", "n">>

SheetLists == {<<N_HoSo, N_HangHoa>>, <<N_hang_hoa, N_HOSO>>, <<N_Sheet1, N_Hang>>, <<N_HoSo>>}

ProfileHeaders ==
    {<<S_MaKH, S_HoTen>>, <<S_MaKH_padded, S_HoTen>>, <<S_MaKH_plain, S_HoTen>>,
     <<S_MaKH, S_HoTen_plain>>, <<S_HoTen>>}

CustomerValues ==
    {[id |-> Str(V_1), name |-> Str(V_A)],
     [id |-> Str(V_slash), name |-> Str(V_A)],
     [id |-> Str(V_colon), name |-> Str(V_A)],
     [id |-> Str(V_dotdot), name |-> Str(V_slash)],
     [id |-> NaN, name |-> NaN]}

ProfileRows(h, cs) ==
    [r \in 1..Len(cs) |-> IF Len(h) = 2 THEN <<cs[r].id, cs[r].name>> ELSE <<cs[r].name>>]

\* A profile sheet without the two literal headers is rejected before its
\* rows are read: one row at most is drawn.
ProfileFrames ==
    {[columns |-> h, rows |-> ProfileRows(h, cs)] :
        h \in {<<S_MaKH, S_HoTen>>, <<S_MaKH_padded, S_HoTen>>},
        cs \in SeqsUpTo(CustomerValues, MaxCustomers)}
    \cup {[columns |-> h, rows |-> ProfileRows(h, cs)] :
             h \in ProfileHeaders, cs \in SeqsUpTo(CustomerValues, 1)}

GoodsRowValues ==
    {<<Str(V_1), Str(V_A), Num(2), Num(500)>>,
     <<Str(V_1), Str(V_B), Str(V_abc), Num(1000)>>,
     <<NaN, Str(V_A), Num(2), Num(500)>>}

\* A goods sheet whose customer-id header is not the literal one, or is
\* missing, joins no row whatever its rows are: one row at most is drawn.
GoodsFrames ==
    {[columns |-> <<S_MaKH, S_TenHang, S_SoLuong, S_DonGia>>, rows |-> rows] :
        rows \in SeqsUpTo(GoodsRowValues, MaxGoodsRows)}
    \cup {[columns |-> <<S_MaKH_plain, S_TenHang, S_SoLuong, S_DonGia>>, rows |-> rows] :
             rows \in SeqsUpTo(GoodsRowValues, 1)}
    \cup {[columns |-> <<S_TenHang, S_SoLuong, S_DonGia>>,
           rows |-> [r \in 1..Len(rows) |-> Tail(rows[r])]] :
             rows \in SeqsUpTo(GoodsRowValues, 1)}

\* lines 104-105: c.strip() on every str header
RECURSIVE lstrip_sp(_)
lstrip_sp(s) == IF s # <<>> /\ Head(s) = " " THEN lstrip_sp(Tail(s)) ELSE s

RECURSIVE rstrip_sp(_)
rstrip_sp(s) ==
    IF s # <<>> /\ s[Len(s)] = " " THEN rstrip_sp(SubSeq(s, 1, Len(s) - 1)) ELSE s

strip_columns(df) ==
    [df EXCEPT !.columns = [i \in 1..Len(df.columns) |->
                               IF isinstance_str(df.columns[i])
                               THEN rstrip_sp(lstrip_sp(df.columns[i]))
                               ELSE df.columns[i]]]

Init ==
    /\ pc = StageOrder[1]
    /\ raised = ""
    /\ outputDirMade = FALSE
    /\ templates = <<>>
    /\ df_hoso = EmptyDataFrame
    /\ df_hanghoa = EmptyDataFrame
    /\ custIdx = 0
    /\ tplIdx = 0
    /\ customer_out_dir = [name |-> <<>>, dir |-> <<>>]
    /\ items_df = EmptyDataFrame
    /\ folders = {}
    /\ saved = <<>>
    /\ attempted = {}
    /\ builds = 0
    /\ arg = <<>>
    /\ ret = NotCalled

loopVars == <<custIdx, tplIdx, customer_out_dir, items_df, folders, saved, attempted, builds, arg, ret>>

\* lines 253-254
CheckXlsx ==
    /\ pc = "check_xlsx"
    /\ \E exists \in BOOLEAN :
          IF ~exists THEN Raise("FileNotFoundError: xlsx")
          ELSE pc' = StageAfter("check_xlsx") /\ UNCHANGED raised
    /\ UNCHANGED <<outputDirMade, templates, df_hoso, df_hanghoa, loopVars>>

\* lines 255-256
CheckTemplateDir ==
    /\ pc = "check_template_dir"
    /\ \E exists \in BOOLEAN :
          IF ~exists THEN Raise("FileNotFoundError: template dir")
          ELSE pc' = StageAfter("check_template_dir") /\ UNCHANGED raised
    /\ UNCHANGED <<outputDirMade, templates, df_hoso, df_hanghoa, loopVars>>

\* line 257
MkdirOutput ==
    /\ pc = "mkdir_output"
    /\ outputDirMade' = TRUE
    /\ pc' = StageAfter("mkdir_output")
    /\ UNCHANGED <<raised, templates, df_hoso, df_hanghoa, loopVars>>

\* lines 260-263
GlobTemplates ==
    /\ pc = "glob_templates"
    /\ \E n \in 0..MaxTemplates :
          /\ templates' = [i \in 1..n |-> Stem(i)]
          /\ IF n = 0 THEN Raise("FileNotFoundError: no template")
             ELSE pc' = StageAfter("glob_templates") /\ UNCHANGED raised
    /\ UNCHANGED <<outputDirMade, df_hoso, df_hanghoa, loopVars>>

\* lines 266-268, with read_excel_data (lines 98-107)
ReadExcelData ==
    /\ pc = "read_excel"
    /\ \E sheet_names \in SheetLists :
          IF find_sheet_names(sheet_names).raised
          THEN Raise("ValueError: sheets") /\ UNCHANGED <<df_hoso, df_hanghoa>>
          ELSE \E hoso \in ProfileFrames, hanghoa \in GoodsFrames :
                  /\ df_hoso' = strip_columns(hoso)
                  /\ df_hanghoa' = strip_columns(hanghoa)
                  /\ pc' = StageAfter("read_excel")
                  /\ UNCHANGED raised
    /\ UNCHANGED <<outputDirMade, templates, loopVars>>

\* lines 271-274
CheckRequiredCols ==
    /\ pc = "check_required_cols"
    /\ IF \E col \in {S_MaKH, S_HoTen} : ~has_column(df_hoso, col)
       THEN Raise("ValueError: required column")
       ELSE pc' = StageAfter("check_required_cols") /\ UNCHANGED raised
    /\ UNCHANGED <<outputDirMade, templates, df_hoso, df_hanghoa, loopVars>>

\* lines 277-283 and 222-231: the next customer, up to the template loop
StartCustomer ==
    /\ pc = "customers"
    /\ custIdx < Len(df_hoso.rows)
    /\ LET customer_row == df_hoso.rows[custIdx + 1]
           customer_id == customer_get(customer_row, S_MaKH)
           customer_name == customer_get(customer_row, S_HoTen)
           folder_name == folder_name_of(customer_id, customer_name)
           out_dir == [name |-> folder_name, dir |-> path_join(OutputRoot, folder_name)]
       IN  /\ customer_out_dir' = out_dir
           /\ folders' = folders \cup {out_dir}
           /\ items_df' = filter_items(df_hanghoa, customer_id)
    /\ custIdx' = custIdx + 1
    /\ tplIdx' = 1
    /\ pc' = "templates"
    /\ UNCHANGED <<raised, outputDirMade, templates, df_hoso, df_hanghoa, saved, attempted,
                   builds, arg, ret>>

\* line 285
FinishCustomers ==
    /\ pc = "customers"
    /\ custIdx = Len(df_hoso.rows)
    /\ pc' = StageAfter("customers")
    /\ UNCHANGED <<raised, outputDirMade, templates, df_hoso, df_hanghoa, loopVars>>

\* lines 233-244: one iteration of the template loop.  DocxTemplate(), render
\* and save may raise; nothing catches the exception, so it ends main().
\* newBuilds is the number of build_goods_table_subdoc calls of the iteration.
RenderTemplateStep(newBuilds) ==
    /\ pc = "templates"
    /\ attempted' = attempted \cup {<<custIdx, tplIdx>>}
    /\ \E outcome \in {"ok", "open_failed", "render_failed", "save_failed"} :
          LET customer_row == df_hoso.rows[custIdx]
              customer_id == customer_get(customer_row, S_MaKH)
              context == build_context_for_customer(customer_row, items_df)
              out_path == Append(customer_out_dir.dir, out_name_of(templates[tplIdx], customer_id))
          IN  /\ builds' = IF outcome = "open_failed" THEN builds ELSE builds + newBuilds
              /\ IF outcome = "ok"
                 THEN /\ saved' = Append(saved, [path |-> out_path, cust |-> custIdx,
                                                 tpl |-> tplIdx, context |-> context])
                      /\ tplIdx' = IF tplIdx < Len(templates) THEN tplIdx + 1 ELSE 0
                      /\ pc' = IF tplIdx < Len(templates) THEN "templates" ELSE "customers"
                      /\ UNCHANGED raised
                 ELSE /\ pc' = "crashed"
                      /\ raised' = outcome
                      /\ UNCHANGED <<saved, tplIdx>>
    /\ UNCHANGED <<outputDirMade, templates, df_hoso, df_hanghoa, custIdx, customer_out_dir,
                   items_df, folders, arg, ret>>

\* An iteration that reuses the fragment built for the first template of the customer.
RenderTemplate_build_once == RenderTemplateStep(IF tplIdx = 1 THEN 1 ELSE 0)

RenderTemplate == RenderTemplateStep(1)

Next ==
    \/ CheckXlsx
    \/ CheckTemplateDir
    \/ MkdirOutput
    \/ GlobTemplates
    \/ ReadExcelData
    \/ CheckRequiredCols
    \/ StartCustomer
    \/ FinishCustomers
    \/ RenderTemplate

Spec == Init /\ [][Next]_vars

(***************************************************************************)
(* Function specifications: one call of a pure function on an argument     *)
(* drawn from a bounded set.  main() is not running (pc = "idle").         *)
(***************************************************************************)
MainIdle ==
    /\ pc = "idle"
    /\ raised = ""
    /\ outputDirMade = FALSE
    /\ templates = <<>>
    /\ df_hoso = EmptyDataFrame
    /\ df_hanghoa = EmptyDataFrame
    /\ custIdx = 0
    /\ tplIdx = 0
    /\ customer_out_dir = [name |-> <<>>, dir |-> <<>>]
    /\ items_df = EmptyDataFrame
    /\ folders = {}
    /\ saved = <<>>
    /\ attempted = {}
    /\ builds = 0

SheetsInit ==
    /\ arg \in SeqsUpTo(SheetNameValues, MaxSheets)
    /\ ret = NotCalled
    /\ MainIdle

CallFindSheetNames ==
    /\ ~ret.called
    /\ ret' = [called |-> TRUE, fn |-> "find_sheet_names", value |-> find_sheet_names(arg)]
    /\ UNCHANGED <<arg, mainVars>>

SpecSheets == SheetsInit /\ [][CallFindSheetNames]_vars

\* Headers of a goods sheet, and candidate spellings.
ColumnValues == {S_SoLuong_plain, S_TenHang, S_Ten_hang, S_SL, IntHeader}
CandidateValues == {S_TenHang, S_Ten_hang, S_SoLuong, S_SL}

PickInit ==
    /\ arg \in [columns : SeqsUpTo(ColumnValues, MaxCols),
                candidates : SeqsUpTo(CandidateValues, MaxCands)]
    /\ ret = NotCalled
    /\ MainIdle

CallPickCol ==
    /\ ~ret.called
    /\ ret' = [called |-> TRUE, fn |-> "pick_col", value |-> pick_col(arg.columns, arg.candidates)]
    /\ UNCHANGED <<arg, mainVars>>

SpecPick == PickInit /\ [][CallPickCol]_vars

\* Goods rows of one customer: the item name column, and any of the quantity,
\* unit price and line total columns under one of two spellings each.
Opt(h) == IF h = None THEN <<>> ELSE <<h>>
QuantityCells == {NaN, Num(3), Str(V_abc)}
PriceCells == {NaN, Num(1000)}
TotalCells == {NaN, Num(1200)}

TableRowsFor(sl, dg, tt) ==
    {<<Str(V_A)>> \o (IF sl = None THEN <<>> ELSE <<c[1]>>)
                  \o (IF dg = None THEN <<>> ELSE <<c[2]>>)
                  \o (IF tt = None THEN <<>> ELSE <<c[3]>>) :
        c \in QuantityCells \X PriceCells \X TotalCells}

TableInit ==
    /\ \E sl \in {None, S_SoLuong, S_SL},
          dg \in {None, S_DonGia, S_Don_gia},
          tt \in {None, S_ThanhTien, S_Thanh_tien} :
          \E rows \in SeqsUpTo(TableRowsFor(sl, dg, tt), MaxTableRows) :
              arg = [columns |-> <<S_TenHang>> \o Opt(sl) \o Opt(dg) \o Opt(tt), rows |-> rows]
    /\ ret = NotCalled
    /\ MainIdle

CallBuildGoodsTable ==
    /\ ~ret.called
    /\ ret' = [called |-> TRUE, fn |-> "build_goods_table_subdoc",
               value |-> build_goods_table_subdoc(arg)]
    /\ UNCHANGED <<arg, mainVars>>

SpecTable == TableInit /\ [][CallBuildGoodsTable]_vars

(***************************************************************************)
(* Helpers of the statements about main().                                 *)
(***************************************************************************)
CustomerId(k) == customer_get(df_hoso.rows[k], S_MaKH)

\* The goods rows whose "Ma KH" cell, as a string, equals the id of customer
\* k, in sheet order; none when the goods sheet has no column of that name.
MatchingRows(k) ==
    IF \E i \in 1..Len(df_hanghoa.columns) : df_hanghoa.columns[i] = S_MaKH
    THEN LET p == CHOOSE i \in 1..Len(df_hanghoa.columns) : df_hanghoa.columns[i] = S_MaKH
         IN  SelectSeq(df_hanghoa.rows, LAMBDA r : str(r[p]) = str(CustomerId(k)))
    ELSE <<>>

EmptyStateFragment == [paragraphs |-> <<S_NoGoods>>, table |-> <<>>]

FuzzyHeader(df, col) ==
    \E i \in 1..Len(df.columns) : normalize_key(df.columns[i]) = normalize_key(col)

(***************************************************************************)
(* C1.  A failure of one template never prevents the remaining templates   *)
(* of that customer, nor the remaining customers, from being attempted:    *)
(* when the run has ended after a failure, every (customer, template)      *)
(* pair has been attempted.  pc = "crashed" is a final state.              *)
(***************************************************************************)
C1_FailureDoesNotStopBatch ==
    pc = "crashed" =>
        \A k \in 1..Len(df_hoso.rows), i \in 1..Len(templates) : <<k, i>> \in attempted

(***************************************************************************)
(* C2.  A run that ends in a setup failure has created no customer folder  *)
(* and saved no artifact: every setup check precedes the customer loop.    *)
(***************************************************************************)
C2_SetupAbortWritesNothing ==
    pc = "aborted" => (folders = {} /\ saved = <<>> /\ attempted = {})

\* The last setup check fails on a workbook that has customers to render.
C2_Witness ==
    /\ pc = "aborted"
    /\ raised = "ValueError: required column"
    /\ Len(df_hoso.rows) > 0
    /\ Len(templates) > 0
    /\ outputDirMade
    /\ folders = {}
    /\ saved = <<>>

(***************************************************************************)
(* C3.  Every output path is written exactly once in a run: no artifact of *)
(* one customer record is overwritten by the artifact of another record.   *)
(***************************************************************************)
C3_EachPathWrittenOnce ==
    \A i, j \in 1..Len(saved) : i # j => saved[i].path # saved[j].path

C5_FuzzyColumnsResolve ==
    /\ (pc = "aborted" /\ raised = "ValueError: required column") =>
          ~(FuzzyHeader(df_hoso, S_MaKH) /\ FuzzyHeader(df_hoso, S_HoTen))
    /\ \A i \in 1..Len(saved) :
          (/\ FuzzyHeader(df_hanghoa, S_MaKH)
           /\ \E r \in 1..Len(df_hanghoa.rows), c \in 1..Len(df_hanghoa.columns) :
                 /\ normalize_key(df_hanghoa.columns[c]) = normalize_key(S_MaKH)
                 /\ str(df_hanghoa.rows[r][c]) = str(CustomerId(saved[i].cust)))
          => saved[i].context.BangHangHoa # EmptyStateFragment

(***************************************************************************)
(* C9.  The item table of every artifact is determined by the goods rows   *)
(* whose customer-id cell equals the customer id as strings, the           *)
(* customer-id column being the goods column headed "Ma KH" (with its      *)
(* accent): with at least one such row, the four-column header followed by *)
(* one data row per matching row in sheet order; with none, or without     *)
(* that column, the single empty-state paragraph and no table.             *)
(***************************************************************************)
C9_TableOfMatchingRows ==
    \A i \in 1..Len(saved) :
        LET m == MatchingRows(saved[i].cust)
            frag == saved[i].context.BangHangHoa
        IN  IF m = <<>> THEN frag = EmptyStateFragment
            ELSE /\ frag.paragraphs = <<>>
                 /\ Len(frag.table) = 1 + Len(m)
                 /\ frag.table[1] = TableHeaders
                 /\ \A r \in 1..Len(m) :
                       /\ Len(frag.table[r + 1]) = 4
                       /\ frag.table[r + 1][1] = str(m[r][column_pos(df_hanghoa, S_TenHang)])
                       /\ frag.table[r + 1][2] = format_int(m[r][column_pos(df_hanghoa, S_SoLuong)])
                       /\ frag.table[r + 1][3] = format_currency(m[r][column_pos(df_hanghoa, S_DonGia)])

\* One run saves an artifact whose table has exactly the one row of its
\* customer out of a goods sheet that also holds a row of another customer,
\* and an artifact of a customer without goods, with the empty-state text.
C9_Witness ==
    /\ Len(df_hanghoa.rows) = 2
    /\ \E i, j \in 1..Len(saved) :
          /\ Len(MatchingRows(saved[i].cust)) = 1
          /\ Len(saved[i].context.BangHangHoa.table) = 2
          /\ MatchingRows(saved[j].cust) = <<>>
          /\ saved[j].context.BangHangHoa = EmptyStateFragment

(***************************************************************************)
(* C10.  The folder of every customer is a proper direct child of the      *)
(* output root: its name is not empty, is neither "." nor "..", holds no   *)
(* path separator, and every artifact is written inside that child.        *)
(***************************************************************************)
C10_FolderInsideRoot ==
    /\ \A f \in folders :
          /\ f.name # <<>>
          /\ f.name # <<".">>
          /\ f.name # <<".", ".">>
          /\ "/" \notin Range(f.name)
          /\ f.dir = Append(OutputRoot, f.name)
    /\ \A i \in 1..Len(saved) :
          /\ Len(saved[i].path) = Len(OutputRoot) + 2
          /\ SubSeq(saved[i].path, 1, Len(OutputRoot)) = OutputRoot

(***************************************************************************)
(* C6.  find_sheet_names returns, for the profile sheet, the first name in *)
(* list order whose normalized key contains "hoso" and, for the goods      *)
(* sheet, the first name whose normalized key contains "hanghoa" or both   *)
(* "hang" and "hoa"; a later match never replaces an earlier one; it       *)
(* raises exactly when one of the two has no matching name.                *)
(***************************************************************************)
IsProfileName(s) == Contains(normalize_key(s), K_hoso)

IsGoodsName(s) ==
    \/ Contains(normalize_key(s), K_hanghoa)
    \/ (Contains(normalize_key(s), K_hang) /\ Contains(normalize_key(s), K_hoa))

FirstProfile(names) ==
    IF \E i \in 1..Len(names) : IsProfileName(names[i])
    THEN names[CHOOSE i \in 1..Len(names) :
                  IsProfileName(names[i]) /\ \A j \in 1..(i - 1) : ~IsProfileName(names[j])]
    ELSE None

FirstGoods(names) ==
    IF \E i \in 1..Len(names) : IsGoodsName(names[i])
    THEN names[CHOOSE i \in 1..Len(names) :
                  IsGoodsName(names[i]) /\ \A j \in 1..(i - 1) : ~IsGoodsName(names[j])]
    ELSE None

C6_FirstMatchWins ==
    (ret.called /\ ret.fn = "find_sheet_names") =>
        /\ ret.value.hoso = FirstProfile(arg)
        /\ ret.value.hanghoa = FirstGoods(arg)
        /\ ret.value.raised <=> (FirstProfile(arg) = None \/ FirstGoods(arg) = None)

\* Two different profile names and two different goods names: the earlier of
\* each is the result.
C6_Witness ==
    /\ ret.called /\ ret.fn = "find_sheet_names"
    /\ ~ret.value.raised
    /\ \E i, j \in 1..Len(arg) :
          i < j /\ IsProfileName(arg[i]) /\ IsProfileName(arg[j]) /\ arg[i] # arg[j]
          /\ ret.value.hoso = arg[i]
    /\ \E i \in 1..Len(arg) : ret.value.hanghoa = arg[i] /\ ~Contains(normalize_key(arg[i]), K_hanghoa)

(***************************************************************************)
(* C7.  pick_col returns an available column whose normalized key equals   *)
(* the normalized key of the earliest candidate, in candidate order, that  *)
(* matches any available str column, wherever that column stands; it       *)
(* returns None exactly when no candidate matches.                         *)
(***************************************************************************)
CandidateMatches(columns, cand) ==
    \E i \in 1..Len(columns) :
        isinstance_str(columns[i]) /\ normalize_key(columns[i]) = normalize_key(cand)

C7_EarliestCandidateWins ==
    (ret.called /\ ret.fn = "pick_col") =>
        LET cols == arg.columns
            cands == arg.candidates
            hits == {j \in 1..Len(cands) : CandidateMatches(cols, cands[j])}
        IN  IF hits = {} THEN ret.value = None
            ELSE LET j0 == CHOOSE j \in hits : \A h \in hits : j <= h
                 IN  /\ ret.value # None
                     /\ ret.value \in Range(cols)
                     /\ normalize_key(ret.value) = normalize_key(cands[j0])

\* The first candidate matches the second column while the second candidate
\* matches the first column.
C7_Witness ==
    /\ ret.called /\ ret.fn = "pick_col"
    /\ arg.columns = <<S_SL, S_TenHang>>
    /\ arg.candidates = <<S_Ten_hang, S_SL>>
    /\ ret.value = S_TenHang

(***************************************************************************)
(* C8.  The line-total cell of every data row: when a literal total column *)
(* resolved, the text of the row cell of that column (never a derived      *)
(* value); otherwise, when both the quantity and the unit-price column     *)
(* resolved, quantity x unit price with an unparsable or missing operand   *)
(* counted as 0; otherwise blank.                                          *)
(***************************************************************************)
OperandValue(v) ==
    CASE v.k = "num" -> v.n
      [] v.k = "str" /\ IsDigits(v.s) -> DigitsValue(v.s)
      [] OTHER -> 0

C8_LineTotal ==
    (ret.called /\ ret.fn = "build_goods_table_subdoc" /\ Len(arg.rows) > 0) =>
        LET sl == pick_col(arg.columns, SoLuongCandidates)
            dg == pick_col(arg.columns, DonGiaCandidates)
            tt == pick_col(arg.columns, ThanhTienCandidates)
        IN  /\ Len(ret.value.table) = 1 + Len(arg.rows)
            /\ \A r \in 1..Len(arg.rows) :
                  LET total == ret.value.table[r + 1][4]
                      row == arg.rows[r]
                  IN  IF tt # None
                      THEN total = format_currency(row[column_pos(arg, tt)])
                      ELSE IF sl # None /\ dg # None
                      THEN total = Grouped(OperandValue(row[column_pos(arg, sl)])
                                           * OperandValue(row[column_pos(arg, dg)]))
                      ELSE total = <<>>

\* No total column; one row with quantity 3 and unit price 1000 gives
\* "3.000", one row with quantity "abc" gives "0".
C8_Witness ==
    /\ ret.called /\ ret.fn = "build_goods_table_subdoc"
    /\ pick_col(arg.columns, ThanhTienCandidates) = None
    /\ \E r \in 1..Len(arg.rows) :
          /\ row_get(arg, arg.rows[r], pick_col(arg.columns, SoLuongCandidates), NaN) = Num(3)
          /\ row_get(arg, arg.rows[r], pick_col(arg.columns, DonGiaCandidates), NaN) = Num(1000)
          /\ ret.value.table[r + 1][4] = <<"3", ".", "0", "0", "0">>
    /\ \E r \in 1..Len(arg.rows) :
          /\ row_get(arg, arg.rows[r], pick_col(arg.columns, SoLuongCandidates), NaN) = Str(V_abc)
          /\ ret.value.table[r + 1][4] = <<"0">>

====
